---------------------------- MODULE Spec2Model ----------------------------
(* A model of json_to_images.py: the grid geometry and drawing helpers,   *)
(* the four image compositions (puzzle, examples, test, answer) and the   *)
(* control flow of main.  A canvas is modelled by the sequence of calls   *)
(* issued against it (draw.text, draw_grid, draw_blank_grid) and by the   *)
(* sequence of primitive draw.rectangle / draw.text operations these      *)
(* calls expand to.                                                       *)
EXTENDS Integers, Sequences, FiniteSets, TLC

VARIABLES pc, data, outcome, stderr, exit_code, result, grid_arg

vars == <<pc, data, outcome, stderr, exit_code, result, grid_arg>>

(***************************************************************************)
(* Program constants (json_to_images.py lines 29-33).                      *)
(***************************************************************************)
CELL_SIZE == 20
GRID_PADDING == 0
GRID_SPACING == 20
LABEL_HEIGHT == 30
MARGIN == 20

(***************************************************************************)
(* Bounds of the model.                                                    *)
(***************************************************************************)
MaxTrain == 2
MaxTestRows == 5
GridMaxRows == 2
GridMaxCols == 2

BLACK == <<0, 0, 0>>
WHITE == <<255, 255, 255>>
FILLED_OUTLINE == <<100, 100, 100>>
BLANK_OUTLINE == <<200, 200, 200>>

ARC_COLORS ==
    [c \in 0..9 |->
        CASE c = 0 -> <<0, 0, 0>>
          [] c = 1 -> <<0, 116, 217>>
          [] c = 2 -> <<255, 65, 54>>
          [] c = 3 -> <<46, 204, 64>>
          [] c = 4 -> <<255, 220, 0>>
          [] c = 5 -> <<170, 170, 170>>
          [] c = 6 -> <<240, 18, 190>>
          [] c = 7 -> <<255, 133, 27>>
          [] c = 8 -> <<127, 219, 255>>
          [] c = 9 -> <<128, 0, 0>>]

(***************************************************************************)
(* Python idioms.                                                          *)
(***************************************************************************)
Max(a, b) == IF a >= b THEN a ELSE b

\* dict.get(key, []) : the value under key, the empty list when absent.
Get(d, key) == IF key \in DOMAIN d THEN d[key] ELSE <<>>

\* ARC_COLORS.get(color_id, ARC_COLORS[0])
ColorOf(color_id) ==
    IF color_id \in DOMAIN ARC_COLORS THEN ARC_COLORS[color_id] ELSE ARC_COLORS[0]

\* One draw.rectangle([x0, y0, x1, y1], fill, outline) call.
Rectangle(cell_x, cell_y, cell_size, fill, outline) ==
    [op |-> "rectangle", x0 |-> cell_x, y0 |-> cell_y,
     x1 |-> cell_x + cell_size - 1, y1 |-> cell_y + cell_size - 1,
     fill |-> fill, outline |-> outline]

\* One draw.text((x, y), label, fill=(0, 0, 0)) call.
Text(x, y, label) ==
    [op |-> "text", x |-> x, y |-> y, text |-> label, fill |-> BLACK]

\* The cell value draw_grid reads at 0-based (y, x): grid[y][x] when inside
\* the row, 0 otherwise.
CellAt(grid, y, x) ==
    IF y < Len(grid) /\ x < Len(grid[y + 1]) THEN grid[y + 1][x + 1] ELSE 0

\* draw_grid with white as the fallback color.
DrawGridBadFallback(grid, x_offset, y_offset, cell_size, grid_padding) ==
    IF Len(grid) = 0 THEN <<>>
    ELSE LET height == Len(grid)
             width == Len(grid[1])
         IN [i \in 1..(height * width) |->
                LET y == (i - 1) \div width
                    x == (i - 1) % width
                    color_id == CellAt(grid, y, x)
                IN Rectangle(x_offset + x * (cell_size + grid_padding),
                             y_offset + y * (cell_size + grid_padding),
                             cell_size,
                             IF color_id \in DOMAIN ARC_COLORS
                             THEN ARC_COLORS[color_id] ELSE WHITE,
                             FILLED_OUTLINE)]

\* draw_grid: the rectangles painted, in row-major order.
DrawGrid(grid, x_offset, y_offset, cell_size, grid_padding) ==
    IF Len(grid) = 0 THEN <<>>
    ELSE LET height == Len(grid)
             width == Len(grid[1])
         IN [i \in 1..(height * width) |->
                LET y == (i - 1) \div width
                    x == (i - 1) % width
                    color_id == CellAt(grid, y, x)
                    color == ColorOf(color_id)
                IN Rectangle(x_offset + x * (cell_size + grid_padding),
                             y_offset + y * (cell_size + grid_padding),
                             cell_size, color, FILLED_OUTLINE)]

\* draw_blank_grid: width * height white cells; no grid is read.
DrawBlankGrid(width, height, x_offset, y_offset, cell_size, grid_padding) ==
    [i \in 1..(height * width) |->
        LET y == (i - 1) \div width
            x == (i - 1) % width
        IN Rectangle(x_offset + x * (cell_size + grid_padding),
                     y_offset + y * (cell_size + grid_padding),
                     cell_size, WHITE, BLANK_OUTLINE)]

\* get_grid_size: <<width, height>> in cells.
get_grid_size(grid) ==
    IF Len(grid) = 0 THEN <<0, 0>> ELSE <<Len(grid[1]), Len(grid)>>

(***************************************************************************)
(* Calls a composition issues against its canvas, and their expansion into *)
(* primitive operations.                                                   *)
(***************************************************************************)
GridCall(grid, x, y) == [op |-> "draw_grid", grid |-> grid, x |-> x, y |-> y]

BlankCall(w, h, x, y) ==
    [op |-> "draw_blank_grid", width |-> w, height |-> h, x |-> x, y |-> y]

PaintCall(c) ==
    CASE c.op = "text" -> <<c>>
      [] c.op = "draw_grid" -> DrawGrid(c.grid, c.x, c.y, CELL_SIZE, GRID_PADDING)
      [] c.op = "draw_blank_grid" ->
            DrawBlankGrid(c.width, c.height, c.x, c.y, CELL_SIZE, GRID_PADDING)

RECURSIVE Paint(_)
Paint(calls) ==
    IF calls = <<>> THEN <<>> ELSE PaintCall(Head(calls)) \o Paint(Tail(calls))

\* The value a composition yields: an image (status "ok") or a raised
\* ValueError with its message.
Image(fn, w, h, calls) ==
    [fn |-> fn, status |-> "ok", msg |-> "", width |-> w, height |-> h,
     calls |-> calls, draws |-> Paint(calls)]

Raise(fn, msg) ==
    [fn |-> fn, status |-> "ValueError", msg |-> msg, width |-> 0, height |-> 0,
     calls |-> <<>>, draws |-> <<>>]

NoResult ==
    [fn |-> "none", status |-> "none", msg |-> "", width |-> 0, height |-> 0,
     calls |-> <<>>, draws |-> <<>>]

(***************************************************************************)
(* create_puzzle_image (lines 84-247).                                     *)
(***************************************************************************)
\* Lines 98-123: the layout record of training pair i (1-based here, the
\* code's index is i - 1).
PuzzleTrainInfo(train) ==
    [i \in 1..Len(train) |->
        LET example == train[i]
            input_grid == Get(example, "input")
            output_grid == Get(example, "output")
            input_size == get_grid_size(input_grid)
            output_size == get_grid_size(output_grid)
        IN [index |-> i - 1,
            input |-> input_grid,
            output |-> output_grid,
            input_size |-> input_size,
            output_size |-> output_size,
            grid_width |-> input_size[1] * (CELL_SIZE + GRID_PADDING)
                           + GRID_SPACING
                           + output_size[1] * (CELL_SIZE + GRID_PADDING),
            height |-> Max(input_size[2], output_size[2])
                       * (CELL_SIZE + GRID_PADDING)]]

\* Line 113: examples_width after the first k pairs.
RECURSIVE PuzzleExamplesWidth(_, _)
PuzzleExamplesWidth(train_info, k) ==
    IF k = 0 THEN 0
    ELSE Max(PuzzleExamplesWidth(train_info, k - 1), train_info[k].grid_width)

\* Lines 124-126: examples_height after the first k pairs.
RECURSIVE PuzzleExamplesHeight(_, _)
PuzzleExamplesHeight(train_info, k) ==
    IF k = 0 THEN 0
    ELSE PuzzleExamplesHeight(train_info, k - 1)
         + train_info[k].height + LABEL_HEIGHT * 2 + GRID_SPACING

\* Lines 131-150: test_info, <<>> standing for None.
PuzzleTestInfo(test) ==
    IF Len(test) > 0
    THEN LET test_input == Get(test[1], "input")
             test_output == Get(test[1], "output")
             test_size == get_grid_size(test_input)
             output_size == IF test_output # <<>>
                            THEN get_grid_size(test_output)
                            ELSE test_size
         IN <<[input |-> test_input,
               output |-> test_output,
               input_size |-> test_size,
               output_size |-> output_size,
               test_width |-> Max(test_size[1], output_size[1])
                              * (CELL_SIZE + GRID_PADDING),
               input_height |-> test_size[2] * (CELL_SIZE + GRID_PADDING),
               output_height |-> output_size[2] * (CELL_SIZE + GRID_PADDING)]>>
    ELSE <<>>

\* Lines 160-169: test_column_height.
PuzzleTestColumnHeight(test_info) ==
    IF test_info # <<>>
    THEN LABEL_HEIGHT + LABEL_HEIGHT + test_info[1].input_height
         + GRID_SPACING + LABEL_HEIGHT + test_info[1].output_height
    ELSE 0

\* Lines 177-209: the state of the drawing loop after the first k pairs:
\* the cursor y_pos, example2_output_y (<<>> standing for None) and the
\* calls issued so far.
RECURSIVE PuzzleTrainLoop(_, _)
PuzzleTrainLoop(train_info, k) ==
    IF k = 0
    THEN [y_pos |-> MARGIN, example2_output_y |-> <<>>, calls |-> <<>>]
    ELSE LET prev == PuzzleTrainLoop(train_info, k - 1)
             info == train_info[k]
             y0 == prev.y_pos
             y1 == y0 + LABEL_HEIGHT
             input_x == MARGIN
             input_y == y1 + LABEL_HEIGHT
             output_x == input_x + info.input_size[1] * (CELL_SIZE + GRID_PADDING)
                         + GRID_SPACING
             output_y == y1 + LABEL_HEIGHT
         IN [y_pos |-> y1 + LABEL_HEIGHT + info.height + GRID_SPACING,
             example2_output_y |-> IF info.index = 1 THEN <<output_y>>
                                   ELSE prev.example2_output_y,
             calls |-> prev.calls \o
                 <<Text(MARGIN, y0, "Example " \o ToString(info.index + 1)),
                   Text(input_x, y1, "Input"),
                   GridCall(info.input, input_x, input_y),
                   Text(output_x, y1, "Output"),
                   GridCall(info.output, output_x, output_y)>>]

\* Line 213 without the margin.
PuzzleTestXNoMargin(left_column_width, column_spacing) ==
    left_column_width + column_spacing

\* Line 213: the x coordinate of the test column.
PuzzleTestX(left_column_width, column_spacing) ==
    left_column_width + column_spacing + MARGIN

\* Lines 231-242 with the fallback branch taken always.
PuzzleTestOutputYStacked(example2_output_y, test_info) ==
    MARGIN + LABEL_HEIGHT + LABEL_HEIGHT
    + test_info.input_height + GRID_SPACING + LABEL_HEIGHT

\* Lines 231-242: where the blank output grid starts.
PuzzleTestOutputY(example2_output_y, test_info) ==
    IF example2_output_y # <<>>
    THEN example2_output_y[1]
    ELSE MARGIN + LABEL_HEIGHT + LABEL_HEIGHT
         + test_info.input_height + GRID_SPACING + LABEL_HEIGHT

\* Line 245 with the test output drawn from its cells.
PuzzleOutputCallFilled(info, test_x, test_output_y) ==
    GridCall(IF info.output # <<>> THEN info.output ELSE info.input,
             test_x, test_output_y)

\* Line 245: the test output is drawn as a blank grid.
PuzzleOutputCall(info, test_x, test_output_y) ==
    BlankCall(info.output_size[1], info.output_size[2], test_x, test_output_y)

\* Lines 212-245: the calls that draw the test column.
PuzzleTestCalls(test_info, test_x, example2_output_y) ==
    IF test_info = <<>> THEN <<>>
    ELSE LET info == test_info[1]
             test_y0 == MARGIN
             test_y1 == test_y0 + LABEL_HEIGHT
             test_y2 == test_y1 + LABEL_HEIGHT
             test_output_y == PuzzleTestOutputY(example2_output_y, info)
             output_label_y == test_output_y - LABEL_HEIGHT
         IN <<Text(test_x, test_y0, "Test"),
              Text(test_x, test_y1, "Input"),
              GridCall(info.input, test_x, test_y2),
              Text(test_x, output_label_y, "Output"),
              PuzzleOutputCall(info, test_x, test_output_y)>>

\* Line 171: img_height.
PuzzleImgHeight(examples_height, test_column_height) ==
    Max(examples_height, test_column_height) + MARGIN

CreatePuzzleImage(d) ==
    LET train == Get(d, "train")
        test == Get(d, "test")
    IN IF train = <<>> /\ test = <<>>
       THEN Raise("puzzle", "No train or test data found")
       ELSE LET train_info == PuzzleTrainInfo(train)
                examples_width == PuzzleExamplesWidth(train_info, Len(train_info))
                examples_height == PuzzleExamplesHeight(train_info, Len(train_info))
                test_info == PuzzleTestInfo(test)
                test_width == IF test_info # <<>> THEN test_info[1].test_width ELSE 0
                left_column_width == examples_width + 2 * MARGIN
                right_column_width == IF test_info # <<>>
                                      THEN test_width + 2 * MARGIN ELSE 0
                column_spacing == GRID_SPACING * 2
                img_width == left_column_width + column_spacing + right_column_width
                test_column_height == PuzzleTestColumnHeight(test_info)
                img_height == PuzzleImgHeight(examples_height, test_column_height)
                loop == PuzzleTrainLoop(train_info, Len(train_info))
                test_x == PuzzleTestX(left_column_width, column_spacing)
            IN Image("puzzle", img_width, img_height,
                     loop.calls \o
                     PuzzleTestCalls(test_info, test_x, loop.example2_output_y))

(***************************************************************************)
(* create_examples_image (lines 250-330).                                  *)
(***************************************************************************)
\* Lines 263-288.
ExamplesTrainInfo(train) ==
    [i \in 1..Len(train) |->
        LET example == train[i]
            input_grid == Get(example, "input")
            output_grid == Get(example, "output")
            input_size == get_grid_size(input_grid)
            output_size == get_grid_size(output_grid)
        IN [index |-> i - 1,
            input |-> input_grid,
            output |-> output_grid,
            input_size |-> input_size,
            output_size |-> output_size,
            grid_width |-> input_size[1] * (CELL_SIZE + GRID_PADDING)
                           + GRID_SPACING
                           + output_size[1] * (CELL_SIZE + GRID_PADDING),
            height |-> Max(input_size[2], output_size[2])
                       * (CELL_SIZE + GRID_PADDING)]]

\* Line 278.
RECURSIVE ExamplesWidth(_, _)
ExamplesWidth(train_info, k) ==
    IF k = 0 THEN 0
    ELSE Max(ExamplesWidth(train_info, k - 1), train_info[k].grid_width)

\* Lines 289-291.
RECURSIVE ExamplesHeight(_, _)
ExamplesHeight(train_info, k) ==
    IF k = 0 THEN 0
    ELSE ExamplesHeight(train_info, k - 1)
         + train_info[k].height + LABEL_HEIGHT * 2 + GRID_SPACING

\* Line 328 without the spacing between pairs.
ExamplesAdvanceNoSpacing(y_pos, info) == y_pos + LABEL_HEIGHT + info.height

\* Line 328: the cursor after a pair, from the cursor below its label.
ExamplesAdvance(y_pos, info) == y_pos + LABEL_HEIGHT + info.height + GRID_SPACING

\* Lines 301-328: the state of the drawing loop after the first k pairs.
RECURSIVE ExamplesTrainLoop(_, _)
ExamplesTrainLoop(train_info, k) ==
    IF k = 0
    THEN [y_pos |-> MARGIN, calls |-> <<>>]
    ELSE LET prev == ExamplesTrainLoop(train_info, k - 1)
             info == train_info[k]
             y0 == prev.y_pos
             y1 == y0 + LABEL_HEIGHT
             input_x == MARGIN
             input_y == y1 + LABEL_HEIGHT
             output_x == input_x + info.input_size[1] * (CELL_SIZE + GRID_PADDING)
                         + GRID_SPACING
             output_y == y1 + LABEL_HEIGHT
         IN [y_pos |-> ExamplesAdvance(y1, info),
             calls |-> prev.calls \o
                 <<Text(MARGIN, y0, "Example " \o ToString(info.index + 1)),
                   Text(input_x, y1, "Input"),
                   GridCall(info.input, input_x, input_y),
                   Text(output_x, y1, "Output"),
                   GridCall(info.output, output_x, output_y)>>]

CreateExamplesImage(d) ==
    LET train == Get(d, "train")
    IN IF train = <<>>
       THEN Raise("examples", "No train data found")
       ELSE LET train_info == ExamplesTrainInfo(train)
                examples_width == ExamplesWidth(train_info, Len(train_info))
                examples_height == ExamplesHeight(train_info, Len(train_info))
                img_width == examples_width + 2 * MARGIN
                img_height == examples_height + MARGIN
            IN Image("examples", img_width, img_height,
                     ExamplesTrainLoop(train_info, Len(train_info)).calls)

(***************************************************************************)
(* create_test_image (lines 333-394).                                      *)
(***************************************************************************)
\* Lines 346-351: the size of the blank output grid.
TestOutputSize(test_input, test_output) ==
    IF test_output # <<>> THEN get_grid_size(test_output)
    ELSE get_grid_size(test_input)

CreateTestImage(d) ==
    LET test == Get(d, "test")
    IN IF test = <<>>
       THEN Raise("test", "No test data found")
       ELSE LET test_input == Get(test[1], "input")
                test_output == Get(test[1], "output")
            IN IF test_input = <<>>
               THEN Raise("test", "No test input found")
               ELSE LET input_size == get_grid_size(test_input)
                        output_size == TestOutputSize(test_input, test_output)
                        grid_width == Max(input_size[1], output_size[1])
                                      * (CELL_SIZE + GRID_PADDING)
                        input_height == input_size[2] * (CELL_SIZE + GRID_PADDING)
                        output_height == output_size[2] * (CELL_SIZE + GRID_PADDING)
                        img_width == grid_width + 2 * MARGIN
                        img_height == LABEL_HEIGHT + LABEL_HEIGHT + input_height
                                      + GRID_SPACING + LABEL_HEIGHT + output_height
                                      + MARGIN
                        test_x == MARGIN
                        test_y0 == MARGIN
                        test_y1 == test_y0 + LABEL_HEIGHT
                        test_y2 == test_y1 + LABEL_HEIGHT
                        test_y3 == test_y2 + input_height + GRID_SPACING
                        test_y4 == test_y3 + LABEL_HEIGHT
                    IN Image("test", img_width, img_height,
                             <<Text(test_x, test_y0, "Test"),
                               Text(test_x, test_y1, "Input"),
                               GridCall(test_input, test_x, test_y2),
                               Text(test_x, test_y3, "Output"),
                               BlankCall(output_size[1], output_size[2],
                                         test_x, test_y4)>>)

(***************************************************************************)
(* create_answer_image (lines 397-425).                                    *)
(***************************************************************************)
\* Lines 404-407 with the guard left out.
AnswerHasOutputUnchecked(test_output) == TRUE

\* Lines 404-407: the guard on the test output.
AnswerHasOutput(test_output) == test_output # <<>>

CreateAnswerImage(d) ==
    LET test == Get(d, "test")
    IN IF test = <<>>
       THEN Raise("answer", "No test data found")
       ELSE LET test_output == Get(test[1], "output")
            IN IF ~AnswerHasOutput(test_output)
               THEN Raise("answer", "No test output found")
               ELSE LET output_size == get_grid_size(test_output)
                        img_width == output_size[1] * (CELL_SIZE + GRID_PADDING)
                                     + 2 * MARGIN
                        img_height == output_size[2] * (CELL_SIZE + GRID_PADDING)
                                      + LABEL_HEIGHT + 2 * MARGIN
                        output_x == MARGIN
                        output_y == MARGIN + LABEL_HEIGHT
                    IN Image("answer", img_width, img_height,
                             <<Text(MARGIN, MARGIN, "Test Output"),
                               GridCall(test_output, output_x, output_y)>>)

(***************************************************************************)
(* Bounded inputs.  A document is a function on a subset of                *)
(* {"train", "test"}; a pair is a function on a subset of                  *)
(* {"input", "output"}; a grid is a sequence of rows of integers.  Rows may *)
(* be ragged and cell values may lie outside 0..9.                         *)
(***************************************************************************)
SeqsUpTo(S, n) == UNION {[1..k -> S] : k \in 0..n}

PairA == [input |-> <<<<1>>>>, output |-> <<<<2>>>>]
PairB == [input |-> <<<<0, 3>>, <<10>>>>, output |-> <<<<4>>>>]
PairC == [input |-> <<<<5>>>>]
PairD == [input |-> <<>>, output |-> <<>>]
PairE == [output |-> <<<<6>>, <<7>>, <<8>>>>]

TrainPairs == {PairA, PairB, PairC, PairD, PairE}

\* A grid of h rows of one cell.
Column(h) == [r \in 1..h |-> <<r % 10>>]

TestGrids == {Column(h) : h \in 0..MaxTestRows} \cup {<<<<>>>>, <<<<1, 12>>, <<3>>>>}

PairsOver(G) ==
    {[input |-> i, output |-> o] : i \in G, o \in G}
    \cup {[input |-> i] : i \in G}
    \cup {[output |-> o] : o \in G}

TestSeqs(G) ==
    {<<>>} \cup {<<p>> : p \in PairsOver(G)}
    \cup {<<p, PairA>> : p \in {[input |-> <<<<3>>>>], PairA}}

DocsOver(trains, tests) ==
    {[train |-> tr, test |-> te] : tr \in trains, te \in tests}
    \cup {[train |-> tr] : tr \in trains}
    \cup {[test |-> te] : te \in tests}

\* The documents the compositions are applied to.
Docs == DocsOver(SeqsUpTo(TrainPairs, MaxTrain), TestSeqs(TestGrids))

\* The documents main is run on.
MainDocs ==
    DocsOver(SeqsUpTo({PairA, PairD}, MaxTrain),
             TestSeqs({<<>>, <<<<3>>>>, <<<<1, 12>>, <<3>>>>}))

\* The grids draw_grid and get_grid_size are applied to.
CellValues == {-1, 3, 10}
Grids == SeqsUpTo(SeqsUpTo(CellValues, GridMaxCols), GridMaxRows)
Offsets == {0, MARGIN, MARGIN + LABEL_HEIGHT}

(***************************************************************************)
(* main (lines 428-503).                                                   *)
(***************************************************************************)
Steps == {"load", "outdir", "puzzle", "examples", "test", "answer"}

\* What each except clause does with the exception class it is handed.
\* Lines 467-469.
PuzzleOnError(exc) == "exit"
\* Lines 477-479.
ExamplesOnError(exc) == "exit"
\* Lines 487-491.
TestOnError(exc) == "continue"
\* Lines 499-503 with every error of the answer image swallowed.
AnswerOnErrorContinue(exc) == "continue"
\* Lines 499-503.
AnswerOnError(exc) == IF exc = "ValueError" THEN "continue" ELSE "exit"

\* The exception leaving a try block that builds the image r and saves it:
\* the ValueError the composition raised, the OSError of a failed save, or
\* none.
TryOutcome(r, save_ok) ==
    IF r.status # "ok" THEN r.status
    ELSE IF ~save_ok THEN "OSError" ELSE "ok"

InitCommon ==
    /\ data = <<>>
    /\ outcome = [s \in Steps |-> "pending"]
    /\ stderr = <<>>
    /\ exit_code = <<>>
    /\ result = NoResult
    /\ grid_arg = [grid |-> <<>>, x_offset |-> 0, y_offset |-> 0]

Init == pc = "start" /\ InitCommon

Exit(status, message) ==
    /\ pc' = "exited"
    /\ exit_code' = <<status>>
    /\ stderr' = Append(stderr, message)

\* Lines 444-446.
FileNotFound ==
    /\ pc = "start"
    /\ outcome' = [outcome EXCEPT !.load = "FileNotFound"]
    /\ Exit(1, "Error: File not found")
    /\ UNCHANGED <<data, result, grid_arg>>

\* Line 448: open() raises; nothing catches it.
OpenFails ==
    /\ pc = "start"
    /\ outcome' = [outcome EXCEPT !.load = "OSError"]
    /\ Exit(1, "Traceback: OSError")
    /\ UNCHANGED <<data, result, grid_arg>>

\* Line 449: json.load raises; nothing catches it.
ParseFails ==
    /\ pc = "start"
    /\ outcome' = [outcome EXCEPT !.load = "JSONDecodeError"]
    /\ Exit(1, "Traceback: JSONDecodeError")
    /\ UNCHANGED <<data, result, grid_arg>>

\* Lines 448-449.
Load ==
    /\ pc = "start"
    /\ \E d \in MainDocs : data' = d
    /\ outcome' = [outcome EXCEPT !.load = "ok"]
    /\ pc' = "outdir"
    /\ UNCHANGED <<stderr, exit_code, result, grid_arg>>

\* Lines 452-456: the input's directory, or --output-dir created by a mkdir
\* that may raise.
OutputDir ==
    /\ pc = "outdir"
    /\ \E how \in {"default", "created", "OSError"} :
          IF how = "OSError"
          THEN /\ outcome' = [outcome EXCEPT !.outdir = "OSError"]
               /\ Exit(1, "Traceback: OSError")
          ELSE /\ outcome' = [outcome EXCEPT !.outdir = "ok"]
               /\ pc' = "puzzle"
               /\ UNCHANGED <<stderr, exit_code>>
    /\ UNCHANGED <<data, result, grid_arg>>

\* Lines 461-469.
Puzzle ==
    /\ pc = "puzzle"
    /\ \E save_ok \in BOOLEAN :
          LET r == CreatePuzzleImage(data)
              exc == TryOutcome(r, save_ok)
          IN /\ result' = r
             /\ outcome' = [outcome EXCEPT !.puzzle = exc]
             /\ IF exc = "ok"
                THEN pc' = "examples" /\ UNCHANGED <<stderr, exit_code>>
                ELSE IF PuzzleOnError(exc) = "exit"
                THEN Exit(1, "Error creating puzzle image")
                ELSE /\ pc' = "examples"
                     /\ stderr' = Append(stderr, "Error creating puzzle image")
                     /\ UNCHANGED exit_code
    /\ UNCHANGED <<data, grid_arg>>

\* Lines 471-479.
Examples ==
    /\ pc = "examples"
    /\ \E save_ok \in BOOLEAN :
          LET r == CreateExamplesImage(data)
              exc == TryOutcome(r, save_ok)
          IN /\ result' = r
             /\ outcome' = [outcome EXCEPT !.examples = exc]
             /\ IF exc = "ok"
                THEN pc' = "test" /\ UNCHANGED <<stderr, exit_code>>
                ELSE IF ExamplesOnError(exc) = "exit"
                THEN Exit(1, "Error creating examples image")
                ELSE /\ pc' = "test"
                     /\ stderr' = Append(stderr, "Error creating examples image")
                     /\ UNCHANGED exit_code
    /\ UNCHANGED <<data, grid_arg>>

\* Lines 481-491.
Test ==
    /\ pc = "test"
    /\ \E save_ok \in BOOLEAN :
          LET r == CreateTestImage(data)
              exc == TryOutcome(r, save_ok)
              message == IF exc = "ValueError"
                         THEN "Warning: Skipping test image."
                         ELSE "Error creating test image"
          IN /\ result' = r
             /\ outcome' = [outcome EXCEPT !.test = exc]
             /\ IF exc = "ok"
                THEN pc' = "answer" /\ UNCHANGED <<stderr, exit_code>>
                ELSE IF TestOnError(exc) = "exit"
                THEN Exit(1, message)
                ELSE /\ pc' = "answer"
                     /\ stderr' = Append(stderr, message)
                     /\ UNCHANGED exit_code
    /\ UNCHANGED <<data, grid_arg>>

\* Lines 493-503.
Answer ==
    /\ pc = "answer"
    /\ \E save_ok \in BOOLEAN :
          LET r == CreateAnswerImage(data)
              exc == TryOutcome(r, save_ok)
              message == IF exc = "ValueError"
                         THEN "Warning: Skipping answer image."
                         ELSE "Error creating answer image"
          IN /\ result' = r
             /\ outcome' = [outcome EXCEPT !.answer = exc]
             /\ IF exc = "ok"
                THEN pc' = "return" /\ UNCHANGED <<stderr, exit_code>>
                ELSE IF AnswerOnError(exc) = "exit"
                THEN Exit(1, message)
                ELSE /\ pc' = "return"
                     /\ stderr' = Append(stderr, message)
                     /\ UNCHANGED exit_code
    /\ UNCHANGED <<data, grid_arg>>

\* Line 507: main returns and the interpreter exits with status 0.
Return ==
    /\ pc = "return"
    /\ pc' = "exited"
    /\ exit_code' = <<0>>
    /\ UNCHANGED <<data, outcome, stderr, result, grid_arg>>

Next ==
    \/ FileNotFound
    \/ OpenFails
    \/ ParseFails
    \/ Load
    \/ OutputDir
    \/ Puzzle
    \/ Examples
    \/ Test
    \/ Answer
    \/ Return

Spec == Init /\ [][Next]_vars

(***************************************************************************)
(* The four compositions as functions of the document: each is applied to  *)
(* every document of Docs on its own.                                      *)
(***************************************************************************)
InitCompose ==
    /\ pc = "compose"
    /\ data \in Docs
    /\ outcome = [s \in Steps |-> "pending"]
    /\ stderr = <<>>
    /\ exit_code = <<>>
    /\ result = NoResult
    /\ grid_arg = [grid |-> <<>>, x_offset |-> 0, y_offset |-> 0]

Composed(r) ==
    /\ pc = "compose"
    /\ pc' = "composed"
    /\ result' = r
    /\ UNCHANGED <<data, outcome, stderr, exit_code, grid_arg>>

ApplyPuzzle == Composed(CreatePuzzleImage(data))
ApplyExamples == Composed(CreateExamplesImage(data))
ApplyTest == Composed(CreateTestImage(data))
ApplyAnswer == Composed(CreateAnswerImage(data))

NextCompose == ApplyPuzzle \/ ApplyExamples \/ ApplyTest \/ ApplyAnswer

SpecCompose == InitCompose /\ [][NextCompose]_vars

(***************************************************************************)
(* get_grid_size and draw_grid as functions of the grid.                   *)
(***************************************************************************)
InitGrid ==
    /\ pc = "grid"
    /\ data = <<>>
    /\ outcome = [s \in Steps |-> "pending"]
    /\ stderr = <<>>
    /\ exit_code = <<>>
    /\ result = NoResult
    /\ grid_arg \in [grid : Grids, x_offset : Offsets, y_offset : Offsets]

ApplyGetGridSize ==
    /\ pc = "grid"
    /\ pc' = "gridded"
    /\ result' = [NoResult EXCEPT !.fn = "get_grid_size",
                                  !.status = "ok",
                                  !.width = get_grid_size(grid_arg.grid)[1],
                                  !.height = get_grid_size(grid_arg.grid)[2]]
    /\ UNCHANGED <<data, outcome, stderr, exit_code, grid_arg>>

ApplyDrawGrid ==
    /\ pc = "grid"
    /\ pc' = "gridded"
    /\ result' = [NoResult EXCEPT !.fn = "draw_grid",
                                  !.status = "ok",
                                  !.draws = DrawGrid(grid_arg.grid, grid_arg.x_offset,
                                                     grid_arg.y_offset, CELL_SIZE,
                                                     GRID_PADDING)]
    /\ UNCHANGED <<data, outcome, stderr, exit_code, grid_arg>>

NextGrid == ApplyGetGridSize \/ ApplyDrawGrid

SpecGrid == InitGrid /\ [][NextGrid]_vars

(***************************************************************************)
(* Vocabulary of the properties, read off the document itself.             *)
(***************************************************************************)
Compositions == {"puzzle", "examples", "test", "answer"}

TrainOf(d) == Get(d, "train")
TestOf(d) == Get(d, "test")
HasTestPair(d) == Len(TestOf(d)) > 0

\* Cells and pixels of a grid: columns of the first row, number of rows.
Cols(g) == IF Len(g) = 0 THEN 0 ELSE Len(g[1])
Rows(g) == Len(g)
PixelWidth(g) == Cols(g) * CELL_SIZE
PixelHeight(g) == Rows(g) * CELL_SIZE

\* Input width + spacing + output width of a training pair.
CombinedWidth(pair) ==
    PixelWidth(Get(pair, "input")) + GRID_SPACING + PixelWidth(Get(pair, "output"))

\* The height of the row a training pair occupies.
RowHeight(pair) ==
    Max(PixelHeight(Get(pair, "input")), PixelHeight(Get(pair, "output")))

\* The maximum combined width over all training pairs.
MaxCombinedWidth(train) ==
    IF train = <<>> THEN 0
    ELSE CHOOSE w \in {CombinedWidth(train[i]) : i \in DOMAIN train} :
            \A i \in DOMAIN train : CombinedWidth(train[i]) <= w

\* The vertical cursor before training pair k (1-based): each earlier pair
\* advances it by 2 * LABEL_HEIGHT + row height + GRID_SPACING.
RECURSIVE CursorBefore(_, _)
CursorBefore(train, k) ==
    IF k = 1 THEN MARGIN
    ELSE CursorBefore(train, k - 1)
         + 2 * LABEL_HEIGHT + RowHeight(train[k - 1]) + GRID_SPACING

PuzzleDone == pc = "composed" /\ result.fn = "puzzle" /\ result.status = "ok"

\* In the puzzle's call sequence every training pair issues five calls and
\* the test column the last five.
TestCall(k) == result.calls[5 * Len(TrainOf(data)) + k]

(***************************************************************************)
(* C1: once the document is loaded (and the output directory settled),     *)
(* every one of the four compositions has been attempted by the time main  *)
(* ends, whatever the outcome of the others.                               *)
(***************************************************************************)
C1_AllCompositionsAttempted ==
    (pc = "exited" /\ outcome.load = "ok" /\ outcome.outdir = "ok")
        => \A c \in Compositions : outcome[c] # "pending"

FatalComposition ==
    \/ outcome.puzzle \in {"ValueError", "OSError"}
    \/ outcome.examples \in {"ValueError", "OSError"}
    \/ outcome.answer = "OSError"

(***************************************************************************)
(* C2 as stated: the exit status is 1 exactly when the input file does not *)
(* exist, the JSON cannot be parsed, or puzzle or examples failed for any   *)
(* reason, or answer failed for a reason other than NoData; 0 otherwise.   *)
(***************************************************************************)
C2_ExitStatusAsStated ==
    pc = "exited" =>
        /\ exit_code \in {<<0>>, <<1>>}
        /\ exit_code = <<1>> <=>
              \/ outcome.load \in {"FileNotFound", "JSONDecodeError"}
              \/ FatalComposition

(***************************************************************************)
(* C2 amended: the exit status is 1 exactly when the input file does not   *)
(* exist or cannot be opened, the JSON cannot be parsed, the output         *)
(* directory cannot be created, or a fatal composition step failed; it is  *)
(* 0 in every other run, whatever happened to the test image and also when *)
(* the answer image was skipped for NoData.                                *)
(***************************************************************************)
C2_ExitStatus ==
    pc = "exited" =>
        /\ exit_code \in {<<0>>, <<1>>}
        /\ exit_code = <<1>> <=>
              \/ outcome.load \in {"FileNotFound", "OSError", "JSONDecodeError"}
              \/ outcome.outdir = "OSError"
              \/ FatalComposition

C2_Witness ==
    /\ pc = "exited"
    /\ exit_code = <<0>>
    /\ outcome.test = "OSError"
    /\ outcome.answer = "ValueError"

HasTestOutput(d) == HasTestPair(d) /\ "output" \in DOMAIN TestOf(d)[1]

WithTestOutput(d, g) == [d EXCEPT !.test[1].output = g]

\* Grids with the dimensions of g and other cell values: every cell
\* replaced by v, every cell shifted, and the full rectangle of v.
OutputVariants(g) ==
    {[r \in DOMAIN g |-> [k \in DOMAIN g[r] |-> v]] : v \in 0..9}
    \cup {[r \in DOMAIN g |-> [k \in DOMAIN g[r] |-> (g[r][k] + 1) % 10]]}
    \cup {[r \in 1..Rows(g) |-> [k \in 1..Cols(g) |-> v]] : v \in {0, 7}}

(***************************************************************************)
(* C3: the puzzle image does not depend on the cell values of the first    *)
(* test pair's output: replacing them (same dimensions) leaves the canvas  *)
(* size and the whole sequence of primitive draw operations unchanged, and *)
(* the cells of the test output region are white with outline              *)
(* (200,200,200).                                                          *)
(***************************************************************************)
C3_PuzzleHidesAnswer ==
    (PuzzleDone /\ HasTestOutput(data)) =>
        LET g == TestOf(data)[1].output
            n == Cols(g) * Rows(g)
            blank == TestCall(5)
            first == Len(result.draws) - n
        IN /\ \A v \in OutputVariants(g) :
                 LET other == CreatePuzzleImage(WithTestOutput(data, v))
                 IN /\ other.status = "ok"
                    /\ other.width = result.width
                    /\ other.height = result.height
                    /\ other.draws = result.draws
           /\ g # <<>> =>
                 \A row \in 0..(Rows(g) - 1), col \in 0..(Cols(g) - 1) :
                    result.draws[first + row * Cols(g) + col + 1] =
                        [op |-> "rectangle",
                         x0 |-> blank.x + col * CELL_SIZE,
                         y0 |-> blank.y + row * CELL_SIZE,
                         x1 |-> blank.x + col * CELL_SIZE + CELL_SIZE - 1,
                         y1 |-> blank.y + row * CELL_SIZE + CELL_SIZE - 1,
                         fill |-> <<255, 255, 255>>,
                         outline |-> <<200, 200, 200>>]

C3_Witness ==
    /\ PuzzleDone
    /\ HasTestOutput(data)
    /\ Rows(TestOf(data)[1].output) >= 2
    /\ Cols(TestOf(data)[1].output) >= 2
    /\ Len(TrainOf(data)) >= 1

StackedOutputY(d) ==
    MARGIN + 2 * LABEL_HEIGHT + PixelHeight(Get(TestOf(d)[1], "input"))
    + GRID_SPACING + LABEL_HEIGHT

(***************************************************************************)
(* C4: with at least two training pairs and a test pair, the blank test    *)
(* output grid starts at the vertical offset of training pair index 1's    *)
(* output grid and the test "Output" label sits LABEL_HEIGHT above it;     *)
(* with fewer than two training pairs it starts at MARGIN + 2*LABEL_HEIGHT *)
(* + test input pixel height + GRID_SPACING + LABEL_HEIGHT.                *)
(***************************************************************************)
C4_Alignment ==
    (PuzzleDone /\ HasTestPair(data)) =>
        LET blank == TestCall(5)
            label == TestCall(4)
        IN /\ blank.op = "draw_blank_grid"
           /\ Len(TrainOf(data)) >= 2 =>
                 /\ result.calls[10].op = "draw_grid"
                 /\ result.calls[10].grid = Get(TrainOf(data)[2], "output")
                 /\ blank.y = result.calls[10].y
                 /\ label.op = "text" /\ label.text = "Output"
                 /\ label.x = blank.x
                 /\ label.y = blank.y - LABEL_HEIGHT
           /\ Len(TrainOf(data)) < 2 => blank.y = StackedOutputY(data)

C4_Witness ==
    /\ PuzzleDone
    /\ HasTestPair(data)
    /\ Len(TrainOf(data)) >= 2
    /\ TestCall(5).y = result.calls[10].y
    /\ TestCall(5).y # StackedOutputY(data)

InputWithoutOutput(d) ==
    /\ HasTestPair(d)
    /\ Get(TestOf(d)[1], "input") # <<>>
    /\ Get(TestOf(d)[1], "output") = <<>>

(***************************************************************************)
(* C5: on a document whose first test pair has a non-empty input and an    *)
(* absent or empty output, the answer composition fails with NoData, the   *)
(* test composition succeeds and draws a blank grid of the input's         *)
(* dimensions, and with at least one training pair the puzzle and examples *)
(* compositions succeed too.                                               *)
(***************************************************************************)
C5_TestAnswerAsymmetry ==
    (pc = "composed" /\ InputWithoutOutput(data)) =>
        LET input == Get(TestOf(data)[1], "input")
        IN /\ result.fn = "answer" =>
                 /\ result.status = "ValueError"
                 /\ result.msg = "No test output found"
           /\ result.fn = "test" =>
                 /\ result.status = "ok"
                 /\ result.calls[5].op = "draw_blank_grid"
                 /\ result.calls[5].width = Cols(input)
                 /\ result.calls[5].height = Rows(input)
                 /\ Len(result.draws) = 3 + 2 * Cols(input) * Rows(input)
           /\ (result.fn \in {"puzzle", "examples"} /\ Len(TrainOf(data)) >= 1) =>
                 result.status = "ok"

C5_Witness ==
    /\ pc = "composed"
    /\ InputWithoutOutput(data)
    /\ "output" \notin DOMAIN TestOf(data)[1]
    /\ Len(TrainOf(data)) >= 1
    /\ result.fn = "answer"
    /\ result.status = "ValueError"

(***************************************************************************)
(* C6: every cell rectangle the puzzle composition paints lies inside the  *)
(* canvas: 0 <= x, x + CELL_SIZE <= img_width, 0 <= y and                  *)
(* y + CELL_SIZE <= img_height.                                            *)
(***************************************************************************)
C6_CellsInsideCanvas ==
    PuzzleDone =>
        \A i \in DOMAIN result.draws :
            LET r == result.draws[i]
            IN r.op = "rectangle" =>
                  /\ 0 <= r.x0 /\ r.x0 + CELL_SIZE <= result.width
                  /\ 0 <= r.y0 /\ r.y0 + CELL_SIZE <= result.height

TestColumnAt(x) ==
    /\ TestCall(1).op = "text" /\ TestCall(1).text = "Test" /\ TestCall(1).x = x
    /\ TestCall(3).op = "draw_grid" /\ TestCall(3).x = x
    /\ TestCall(5).op = "draw_blank_grid" /\ TestCall(5).x = x

(***************************************************************************)
(* C7 as stated: the test column is drawn at x = left column width +       *)
(* 2 * GRID_SPACING, the left column width being the maximum combined      *)
(* width of the training pairs.                                            *)
(***************************************************************************)
C7_TestColumnXAsStated ==
    (PuzzleDone /\ HasTestPair(data)) =>
        TestColumnAt(MaxCombinedWidth(TrainOf(data)) + 2 * GRID_SPACING)

(***************************************************************************)
(* C7 amended: the test column is drawn at x = maximum combined width of   *)
(* the training pairs + 2 * MARGIN (the left column's margins)             *)
(* + 2 * GRID_SPACING + MARGIN (the test column's own margin).             *)
(***************************************************************************)
C7_TestColumnX ==
    (PuzzleDone /\ HasTestPair(data)) =>
        TestColumnAt(MaxCombinedWidth(TrainOf(data)) + 2 * MARGIN
                     + 2 * GRID_SPACING + MARGIN)

C7_Witness ==
    /\ PuzzleDone
    /\ HasTestPair(data)
    /\ Len(TrainOf(data)) >= 2
    /\ CombinedWidth(TrainOf(data)[1]) > CombinedWidth(TrainOf(data)[2])
    /\ TestCall(1).x = CombinedWidth(TrainOf(data)[1]) + 3 * MARGIN + 2 * GRID_SPACING

(***************************************************************************)
(* C8: the calls of the examples composition are the training-pair calls   *)
(* of the puzzle composition on the same document: pair k's label at the   *)
(* cursor, its input at x = MARGIN, its output at x = MARGIN + input pixel *)
(* width + GRID_SPACING, the cursor advancing by 2*LABEL_HEIGHT + row      *)
(* height + GRID_SPACING per pair; and the examples canvas is (maximum     *)
(* combined width + 2*MARGIN) by (sum of the advances + MARGIN).           *)
(***************************************************************************)
C8_ExamplesIsLeftColumn ==
    (pc = "composed" /\ result.fn = "examples" /\ TrainOf(data) # <<>>) =>
        LET train == TrainOf(data)
            n == Len(train)
            puzzle == CreatePuzzleImage(data)
        IN /\ result.status = "ok"
           /\ Len(result.calls) = 5 * n
           /\ result.calls = SubSeq(puzzle.calls, 1, 5 * n)
           /\ result.draws = SubSeq(puzzle.draws, 1, Len(result.draws))
           /\ \A k \in 1..n :
                 LET y == CursorBefore(train, k)
                     out_x == MARGIN + PixelWidth(Get(train[k], "input"))
                              + GRID_SPACING
                     c == [j \in 1..5 |-> result.calls[5 * (k - 1) + j]]
                 IN /\ c[1].op = "text" /\ c[1].x = MARGIN /\ c[1].y = y
                    /\ c[2].op = "text" /\ c[2].text = "Input"
                    /\ c[2].x = MARGIN /\ c[2].y = y + LABEL_HEIGHT
                    /\ c[3].op = "draw_grid" /\ c[3].grid = Get(train[k], "input")
                    /\ c[3].x = MARGIN /\ c[3].y = y + 2 * LABEL_HEIGHT
                    /\ c[4].op = "text" /\ c[4].text = "Output"
                    /\ c[4].x = out_x /\ c[4].y = y + LABEL_HEIGHT
                    /\ c[5].op = "draw_grid" /\ c[5].grid = Get(train[k], "output")
                    /\ c[5].x = out_x /\ c[5].y = y + 2 * LABEL_HEIGHT
           /\ result.width = MaxCombinedWidth(train) + 2 * MARGIN
           /\ result.height = CursorBefore(train, n + 1)

C8_Witness ==
    /\ pc = "composed"
    /\ result.fn = "examples"
    /\ result.status = "ok"
    /\ Len(TrainOf(data)) >= 2
    /\ HasTestPair(data)
    /\ RowHeight(TrainOf(data)[1]) > 0
    /\ Len(result.draws) > Len(result.calls)

ExpectedColor(g, row, col) ==
    IF col < Len(g[row + 1]) /\ g[row + 1][col + 1] \in 0..9
    THEN ARC_COLORS[g[row + 1][col + 1]]
    ELSE <<0, 0, 0>>

(***************************************************************************)
(* C9: for a grid of R rows whose first row has C cells, get_grid_size     *)
(* yields (C, R), (0, 0) for the empty grid, and draw_grid paints exactly  *)
(* R*C cells, cell (row, col) at (x_offset + col*CELL_SIZE,                *)
(* y_offset + row*CELL_SIZE), in the table color of grid[row][col] when    *)
(* col is within that row and the value is in 0..9, in black otherwise.    *)
(***************************************************************************)
C9_FilledGrid ==
    pc = "gridded" =>
        LET g == grid_arg.grid
        IN /\ result.fn = "get_grid_size" =>
                 /\ result.width = Cols(g)
                 /\ result.height = Rows(g)
                 /\ g = <<>> => (result.width = 0 /\ result.height = 0)
           /\ result.fn = "draw_grid" =>
                 /\ Len(result.draws) = Rows(g) * Cols(g)
                 /\ \A row \in 0..(Rows(g) - 1), col \in 0..(Cols(g) - 1) :
                       LET r == result.draws[row * Cols(g) + col + 1]
                       IN /\ r.op = "rectangle"
                          /\ r.x0 = grid_arg.x_offset + col * CELL_SIZE
                          /\ r.y0 = grid_arg.y_offset + row * CELL_SIZE
                          /\ r.x1 = r.x0 + CELL_SIZE - 1
                          /\ r.y1 = r.y0 + CELL_SIZE - 1
                          /\ r.fill = ExpectedColor(g, row, col)
                          /\ r.outline = <<100, 100, 100>>

C9_Witness ==
    /\ pc = "gridded"
    /\ result.fn = "draw_grid"
    /\ grid_arg.grid = <<<<3, 10>>, <<-1>>>>
    /\ grid_arg.x_offset = MARGIN
    /\ Len(result.draws) = 4
    /\ result.draws[2].fill = <<0, 0, 0>>
    /\ result.draws[4].fill = <<0, 0, 0>>

(***************************************************************************)
(* C10: in the puzzle composition the pixel rows of the blank test output  *)
(* cells are disjoint from the pixel rows of the test input cells.         *)
(***************************************************************************)
C10_BlankDisjointFromInput ==
    (PuzzleDone /\ HasTestPair(data)) =>
        LET input == TestCall(3)
            blank == TestCall(5)
            input_rows == IF Cols(input.grid) = 0 THEN {}
                          ELSE input.y..(input.y + PixelHeight(input.grid) - 1)
            blank_rows == IF blank.width = 0 THEN {}
                          ELSE blank.y..(blank.y + blank.height * CELL_SIZE - 1)
        IN /\ input.x = blank.x
           /\ input_rows \cap blank_rows = {}

=============================================================================
